---- MODULE Spec2Model ----
(***************************************************************************)
(* Maia's Mexican Art Machine: the image handler (web/api/generate.py),    *)
(* the video handler (web/api/generate-video.py) and the desktop CLI       *)
(* (art_generator.py).  One behaviour is one invocation: a POST or OPTIONS *)
(* request to one of the two handlers, or one run of the CLI.  The         *)
(* upstream service is the environment: each upstream request is answered  *)
(* by one outcome drawn from UpstreamOutcomes.                             *)
(***************************************************************************)
EXTENDS Integers, Sequences, FiniteSets, TLC

(***************************************************************************)
(* JSON / Python values.  Every value is a record tagged by t, so values   *)
(* of different Python types are never compared field by field.  A mapping *)
(* is the sequence of its <<key, value>> entries in insertion order; None  *)
(* is JNull.                                                               *)
(***************************************************************************)
JNull == [t |-> "null"]
JNum(n) == [t |-> "num", n |-> n]
JStr(s) == [t |-> "str", s |-> s]
JList(xs) == [t |-> "list", xs |-> xs]
JDict(es) == [t |-> "dict", es |-> es]

IsDict(v) == v.t = "dict"
IsList(v) == v.t = "list"
IsStr(v) == v.t = "str"
IsNone(v) == v.t = "null"

\* len(v) of a str, list or dict
PyLen(v) ==
    CASE v.t = "str" -> Len(v.s)
      [] v.t = "list" -> Len(v.xs)
      [] v.t = "dict" -> Len(v.es)
      [] OTHER -> 0

\* bool(v): None, 0, "", [] and {} are falsy
Truthy(v) ==
    CASE v.t = "null" -> FALSE
      [] v.t = "num" -> v.n # 0
      [] OTHER -> PyLen(v) > 0

\* key in d, for a mapping d
HasKey(d, k) == \E i \in 1..Len(d.es) : d.es[i][1] = k

\* d[key], for a mapping d holding key
Get(d, k) == d.es[CHOOSE i \in 1..Len(d.es) : d.es[i][1] = k][2]

\* sub in s, for two texts
Contains(s, sub) ==
    \E i \in 0..(Len(s) - Len(sub)) : SubSeq(s, i + 1, i + Len(sub)) = sub

\* Python's `key in v` for a text key: a key test on a mapping, an element
\* test on a list, a substring test on text, TypeError on anything else.
InRaises(k, v) == v.t \in {"null", "num"}
PyIn(k, v) ==
    CASE v.t = "dict" -> HasKey(v, k)
      [] v.t = "list" ->
            \E i \in 1..Len(v.xs) : IsStr(v.xs[i]) /\ v.xs[i].s = k
      [] v.t = "str" -> Contains(v.s, k)
      [] OTHER -> FALSE

\* v[key] for a text key raises TypeError unless v is a mapping
IndexRaises(v) == ~IsDict(v)

\* str.strip(): drop leading and trailing whitespace
Strip_LeadingOnly(s) ==
    IF Len(s) > 0 /\ SubSeq(s, 1, 1) = " " THEN SubSeq(s, 2, Len(s)) ELSE s
RECURSIVE LStrip(_)
LStrip(s) ==
    IF Len(s) > 0 /\ SubSeq(s, 1, 1) = " "
    THEN LStrip(SubSeq(s, 2, Len(s))) ELSE s
RECURSIVE RStrip(_)
RStrip(s) ==
    IF Len(s) > 0 /\ SubSeq(s, Len(s), Len(s)) = " "
    THEN RStrip(SubSeq(s, 1, Len(s) - 1)) ELSE s
Strip(s) == RStrip(LStrip(s))

\* n copies of the text c
RECURSIVE Rep(_, _)
Rep(c, n) ==
    IF n = 0 THEN ""
    ELSE IF n % 2 = 0 THEN LET half == Rep(c, n \div 2) IN half \o half
    ELSE c \o Rep(c, n - 1)

Min(a, b) == IF a < b THEN a ELSE b

\* len(json.dumps(v, indent=2)), v printed at indentation ind
RECURSIVE DumpLen(_, _)
RECURSIVE DumpItems(_, _, _)
DumpItems(v, ind, i) ==
    IF i > PyLen(v) THEN 0
    ELSE (IF i > 1 THEN 1 ELSE 0) + 1 + (ind + 2)
         + (IF IsDict(v)
            THEN Len(v.es[i][1]) + 4 + DumpLen(v.es[i][2], ind + 2)
            ELSE DumpLen(v.xs[i], ind + 2))
         + DumpItems(v, ind, i + 1)
DumpLen(v, ind) ==
    CASE v.t = "null" -> 4
      [] v.t = "num" -> 1
      [] v.t = "str" -> Len(v.s) + 2
      [] OTHER ->
            IF PyLen(v) = 0 THEN 2
            ELSE 1 + DumpItems(v, ind, 1) + 1 + ind + 1

(***************************************************************************)
(* Response normalization.                                                 *)
(***************************************************************************)
MinLongText == 100

\* for key, value in output.items(): the first text value longer than 100
FirstLong(d) ==
    LET hits == {i \in 1..Len(d.es) :
                    IsStr(d.es[i][2]) /\ Len(d.es[i][2].s) > MinLongText}
    IN IF hits = {} THEN JNull
       ELSE d.es[CHOOSE i \in hits : \A j \in hits : i <= j][2]

\* generate.py: the candidate chosen from `output`
ImageSelect(output) ==
    IF IsDict(output)
    THEN IF HasKey(output, "message") THEN Get(output, "message")
         ELSE IF HasKey(output, "images") /\ IsList(Get(output, "images"))
                 /\ PyLen(Get(output, "images")) > 0
              THEN Get(output, "images").xs[1]
         ELSE IF HasKey(output, "image") THEN Get(output, "image")
         ELSE FirstLong(output)
    ELSE IF IsList(output) /\ PyLen(output) > 0 THEN output.xs[1]
    ELSE IF IsStr(output) THEN output
    ELSE JNull

\* generate.py: if image_data is a dict, take its data or image field
ImageUnwrap(c) ==
    IF IsDict(c)
    THEN IF HasKey(c, "data") THEN Get(c, "data")
         ELSE IF HasKey(c, "image") THEN Get(c, "image")
         ELSE c
    ELSE c

\* generate.py: image_data as it stands at the validity check
ImageExtract(result_data) ==
    ImageUnwrap(IF PyIn("output", result_data)
                THEN ImageSelect(Get(result_data, "output"))
                ELSE JNull)

\* generate-video.py: the candidate chosen from `output`
VideoSelect(output) ==
    IF IsDict(output)
    THEN IF HasKey(output, "images") THEN Get(output, "images")
         ELSE IF HasKey(output, "video") THEN Get(output, "video")
         ELSE IF HasKey(output, "message") THEN Get(output, "message")
         ELSE FirstLong(output)
    ELSE IF IsStr(output) THEN output
    ELSE JNull

\* generate-video.py: a non-empty list candidate is replaced by element 0
VideoFirst(c) == IF IsList(c) /\ PyLen(c) > 0 THEN c.xs[1] ELSE c

\* generate-video.py: if video_data is a dict, take data, image or video
VideoUnwrap(c) ==
    IF IsDict(c)
    THEN IF HasKey(c, "data") THEN Get(c, "data")
         ELSE IF HasKey(c, "image") THEN Get(c, "image")
         ELSE IF HasKey(c, "video") THEN Get(c, "video")
         ELSE c
    ELSE c

\* generate-video.py: `"output" in result_data` or result_data["output"]
\* raises TypeError when the parsed body is not a mapping
VideoRaises(result_data) ==
    \/ InRaises("output", result_data)
    \/ PyIn("output", result_data) /\ IndexRaises(result_data)

\* generate-video.py: video_data as it stands at the validity check
VideoExtract(result_data) ==
    VideoUnwrap(VideoFirst(IF PyIn("output", result_data)
                           THEN VideoSelect(Get(result_data, "output"))
                           ELSE JNull))

\* if not media or not isinstance(media, str): no media found
MediaOk(v) == Truthy(v) /\ IsStr(v)

\* art_generator.py generate_art: the tests on result raise TypeError
CliRaises(result) ==
    \/ InRaises("output", result)
    \/ /\ PyIn("output", result)
       /\ \/ IndexRaises(result)
          \/ InRaises("image", Get(result, "output"))
          \/ /\ PyIn("image", Get(result, "output"))
             /\ IndexRaises(Get(result, "output"))

\* art_generator.py generate_art: the value returned for result
CliExtract(result) ==
    IF CliRaises(result) THEN JNull
    ELSE IF PyIn("output", result) /\ PyIn("image", Get(result, "output"))
         THEN Get(Get(result, "output"), "image")
    ELSE IF PyIn("output", result) /\ IsStr(Get(result, "output"))
         THEN Get(result, "output")
    ELSE JNull

(***************************************************************************)
(* The upstream bodies the environment may answer with.                    *)
(***************************************************************************)
LongLen == 101
HugeLen == 1001
TxtLong == Rep("A", LongLen)
TxtLong2 == Rep("B", LongLen)
TxtHundred == Rep("C", MinLongText)
TxtHuge == Rep("Z", HugeLen)
TxtDataUri == "data:image/png;base64,iVBOR"

Out(v) == JDict(<< <<"output", v>> >>)
OutD(es) == Out(JDict(es))

Bodies == <<
    OutD(<< <<"message", JStr("msg")>> >>),
    OutD(<< <<"message", JStr("msg")>>, <<"images", JList(<<JStr("img0")>>)>>,
            <<"video", JStr("vid")>>, <<"image", JStr("img")>> >>),
    OutD(<< <<"images", JList(<<JStr("xyz"), JStr("second")>>)>> >>),
    OutD(<< <<"images", JList(<<>>)>> >>),
    OutD(<< <<"images", JList(<<>>)>>, <<"video", JStr("vid")>> >>),
    OutD(<< <<"images", JList(<<>>)>>, <<"image", JStr("img")>> >>),
    OutD(<< <<"video", JStr("vid")>>, <<"image", JStr("img")>> >>),
    OutD(<< <<"video", JStr("vid")>> >>),
    OutD(<< <<"image", JStr("img")>> >>),
    OutD(<< <<"image", JDict(<< <<"data", JStr("inner")>> >>)>> >>),
    OutD(<< <<"message", JDict(<< <<"video", JStr("vid")>> >>)>> >>),
    OutD(<< <<"message", JDict(<< <<"video", JStr("vid")>>,
                                  <<"image", JStr("img")>>,
                                  <<"data", JStr("inner")>> >>)>> >>),
    OutD(<< <<"message",
              JDict(<< <<"data", JDict(<< <<"data", JStr("deep")>> >>)>> >>)>> >>),
    OutD(<< <<"foo", JStr("short")>>, <<"bar", JStr(TxtLong)>>,
            <<"baz", JStr(TxtLong2)>> >>),
    OutD(<< <<"foo", JStr(TxtHundred)>>, <<"n", JNum(5)>> >>),
    Out(JList(<<JStr("first"), JStr("second")>>)),
    Out(JList(<<>>)),
    Out(JList(<< JDict(<< <<"data", JStr("inner")>> >>) >>)),
    Out(JStr("rawstring")),
    Out(JStr(TxtDataUri)),
    Out(JStr("")),
    Out(JNull),
    Out(JNum(5)),
    Out(JList(<<JStr(TxtHuge)>>)),
    OutD(<< <<"message", JNum(5)>> >>),
    OutD(<< <<"images", JStr("notalist")>> >>),
    OutD(<< <<"images", JList(<< JDict(<< <<"image", JStr("img")>> >>) >>)>> >>),
    OutD(<< <<"image", JStr("img")>>, <<"other", JStr("image")>> >>),
    OutD(<< <<"images", JList(<<>>)>>, <<"bar", JStr(TxtLong)>> >>),
    JDict(<< <<"status", JStr("IN_QUEUE")>> >>),
    JDict(<< <<"status", JStr("IN_QUEUE")>>, <<"output", JStr("early")>> >>),
    JDict(<< <<"status", JStr("COMPLETED")>> >>),
    JDict(<<>>),
    JList(<<>>),
    JList(<<JStr("output")>>),
    JNull,
    JNum(5),
    JStr("no output yet")
>>

\* What one upstream request can come back with: requests.post raises
\* Timeout, raises another exception, or returns a response whose body is
\* JSON (body) or is not (text).
Timeout == [k |-> "timeout"]
Failed == [k |-> "failed"]
Ok200(b) == [k |-> "resp", code |-> 200, json |-> TRUE, body |-> b]
NotJson(c, txt) == [k |-> "resp", code |-> c, json |-> FALSE, text |-> txt]
ErrJson(c, b) == [k |-> "resp", code |-> c, json |-> TRUE, body |-> b]

UpstreamOutcomes ==
    << Timeout, Failed,
       NotJson(200, "<html>oops</html>"),
       NotJson(502, "Bad Gateway"),
       ErrJson(404, JDict(<< <<"error", JStr("endpoint not found")>> >>)),
       ErrJson(500, JDict(<< <<"status", JStr("IN_QUEUE")>> >>)) >>
    \o [i \in 1..Len(Bodies) |-> Ok200(Bodies[i])]

NOutcomes == Len(UpstreamOutcomes)
Outcome(i) == UpstreamOutcomes[i]
IsResp(i) == i # 0 /\ Outcome(i).k = "resp"
IsQueued(o) ==
    /\ o.k = "resp" /\ o.code = 200 /\ o.json /\ IsDict(o.body)
    /\ HasKey(o.body, "status") /\ IsStr(Get(o.body, "status"))
    /\ Get(o.body, "status").s = "IN_QUEUE"

(***************************************************************************)
(* Requests and environments.                                              *)
(***************************************************************************)
\* the optional prompt, style and model entries of a request body
ReqPrompts ==
    << <<>>, << <<"prompt", JStr("")>> >>, << <<"prompt", JStr("   ")>> >>,
       << <<"prompt", JStr("  a garden ")>> >>, << <<"prompt", JStr("sun")>> >>,
       << <<"prompt", JNull>> >>, << <<"prompt", JNum(7)>> >> >>
ReqOptions ==
    << <<>>,
       << <<"style", JStr("frida")>> >>, << <<"style", JStr("mural")>> >>,
       << <<"style", JStr("folk")>> >>, << <<"style", JStr("cubist")>> >>,
       << <<"style", JList(<<JStr("folk")>>)>> >>, << <<"style", JNum(3)>> >>,
       << <<"style", JNull>> >>,
       << <<"model", JStr("sdxl-turbo")>> >>,
       << <<"model", JStr("sdxl-lightning")>> >>,
       << <<"model", JStr("flux-dev")>> >>, << <<"model", JStr("dall-e")>> >>,
       << <<"model", JList(<<JStr("flux-dev")>>)>> >>,
       << <<"style", JStr("mural")>>, <<"model", JStr("flux-dev")>> >>,
       << <<"style", JStr("baroque")>>, <<"model", JNum(2)>> >> >>

\* an HTTP request body: not JSON at all, or a JSON value
HttpRequests ==
    << [json |-> FALSE], [json |-> TRUE, data |-> JList(<<>>)],
       [json |-> TRUE, data |-> JStr("prompt")] >>
    \o [n \in 1..(Len(ReqPrompts) * Len(ReqOptions)) |->
          [json |-> TRUE,
           data |-> JDict(ReqPrompts[((n - 1) % Len(ReqPrompts)) + 1]
                          \o ReqOptions[((n - 1) \div Len(ReqPrompts)) + 1])]]

\* sys.argv of a CLI run
CliArgvs ==
    << <<"art_generator.py">>, <<"art_generator.py", "--help">>,
       <<"art_generator.py", "a garden">>,
       <<"art_generator.py", "a garden", "folk">>,
       <<"art_generator.py", "", "cubist">> >>

\* os.getenv of a variable: None when unset, else its text
EnvValues == << JNull, JStr(""), JStr("rp-secret") >>
Envs ==
    [n \in 1..(Len(EnvValues) * Len(EnvValues) * Len(EnvValues)) |->
        [RUNPOD_API_KEY |-> EnvValues[((n - 1) % 3) + 1],
         RUNPOD_ENDPOINT_ID |-> EnvValues[(((n - 1) \div 3) % 3) + 1],
         RUNPOD_VIDEO_ENDPOINT_ID |-> EnvValues[((n - 1) \div 9) + 1]]]

(***************************************************************************)
(* Request building.                                                       *)
(***************************************************************************)
MEXICAN_ART_STYLES ==
    [frida |-> "in the style of Frida Kahlo with vibrant colors, self-portrait elements, flowers in hair, and nature symbolism",
     mural |-> "in the style of Mexican muralism with bold cultural symbols, strong social themes, and dramatic compositions",
     folk |-> "in the style of Mexican folk art with bright traditional colors, intricate patterns, and festive cultural motifs"]

\* dict.get(style, ...) raises TypeError on an unhashable key
StyleRaises(style) == style.t \in {"list", "dict"}

\* MEXICAN_ART_STYLES.get(style, MEXICAN_ART_STYLES["frida"])
StyleModifier(style) ==
    IF IsStr(style) /\ style.s \in DOMAIN MEXICAN_ART_STYLES
    THEN MEXICAN_ART_STYLES[style.s]
    ELSE MEXICAN_ART_STYLES["frida"]

\* enhance_prompt_with_style of generate.py and art_generator.py
enhance_prompt_with_style(prompt, style) ==
    prompt \o ", " \o StyleModifier(style)

\* enhance_prompt_with_style of generate-video.py
video_enhance_prompt_with_style(prompt, style) ==
    prompt \o ", " \o StyleModifier(style)
    \o ", smooth animation, flowing movement, artistic motion"

\* the workflow builders, reduced to checkpoint, step count and prompt
get_sdxl_turbo_workflow(p) ==
    [ckpt |-> "sd_xl_turbo_1.0.safetensors", steps |-> 4, text |-> p]
get_sdxl_lightning_workflow(p) ==
    [ckpt |-> "sdxl_lightning_8step.safetensors", steps |-> 8, text |-> p]
get_flux_dev_workflow(p) ==
    [ckpt |-> "flux1-dev-fp8.safetensors", steps |-> 20, text |-> p]
get_animatediff_workflow(p) ==
    [ckpt |-> "flux1-dev-fp8.safetensors", steps |-> 20, text |-> p]

\* generate.py: select workflow based on model
SelectWorkflow(model, p) ==
    IF IsStr(model) /\ model.s = "sdxl-turbo" THEN get_sdxl_turbo_workflow(p)
    ELSE IF IsStr(model) /\ model.s = "sdxl-lightning"
         THEN get_sdxl_lightning_workflow(p)
    ELSE IF IsStr(model) /\ model.s = "flux-dev" THEN get_flux_dev_workflow(p)
    ELSE get_sdxl_turbo_workflow(p)

\* data.get(key, default)
GetOr(d, k, default) == IF HasKey(d, k) THEN Get(d, k) ELSE default

ReqPromptRaw(req) == GetOr(req.data, "prompt", JStr(""))
ReqPrompt(req) == Strip(ReqPromptRaw(req).s)
ReqStyle(req) == GetOr(req.data, "style", JStr("frida"))
ReqModel(req) == GetOr(req.data, "model", JStr("sdxl-turbo"))

(***************************************************************************)
(* HTTP responses.                                                         *)
(***************************************************************************)
\* the text of an error message: its call site (category) and what the
\* message interpolates
Msg(cat) == [category |-> cat, upstream_status |-> 0, detail |-> JNull,
             dump_len |-> 0]
UpstreamMsg_NoStatus(o) ==
    [category |-> "upstream", upstream_status |-> 0,
     detail |-> IF o.json THEN o.body ELSE JStr(o.text), dump_len |-> 0]
UpstreamMsg(o) ==
    [category |-> "upstream", upstream_status |-> o.code,
     detail |-> IF o.json THEN o.body ELSE JStr(o.text), dump_len |-> 0]
NoMediaMsg(result_data, limit) ==
    [category |-> "no_media", upstream_status |-> 0, detail |-> JNull,
     dump_len |-> Min(DumpLen(result_data, 0), limit)]

JsonHeaders ==
    ("Content-Type" :> "application/json")
    @@ ("Access-Control-Allow-Origin" :> "*")
PreflightHeaders ==
    ("Access-Control-Allow-Origin" :> "*")
    @@ ("Access-Control-Allow-Methods" :> "POST, OPTIONS")
    @@ ("Access-Control-Allow-Headers" :> "Content-Type")

send_success_response(data) ==
    [status |-> 200, headers |-> JsonHeaders, has_body |-> TRUE, body |-> data]
send_error_response_Always200(message, status_code) ==
    [status |-> 200, headers |-> JsonHeaders, has_body |-> TRUE,
     body |-> [error |-> message]]
send_error_response_NoCors(message, status_code) ==
    [status |-> status_code,
     headers |-> ("Content-Type" :> "application/json"),
     has_body |-> TRUE, body |-> [error |-> message]]
send_error_response(message, status_code) ==
    [status |-> status_code, headers |-> JsonHeaders, has_body |-> TRUE,
     body |-> [error |-> message]]
do_OPTIONS_response ==
    [status |-> 200, headers |-> PreflightHeaders, has_body |-> FALSE,
     body |-> <<>>]

ImageDumpLimit == 500
VideoDumpLimit == 1000
max_retries == 3
TimeoutBackoff == 5
QueuedBackoff == 10

(***************************************************************************)
(* State.                                                                  *)
(***************************************************************************)
VARIABLES
    handler,      \* "image", "video" or "cli": the program invoked
    method,       \* "POST" or "OPTIONS" ("RUN" for the CLI)
    request,      \* the HTTP request body, or [argv |-> sys.argv]
    env,          \* the environment variables
    pc,           \* "start", "posting" (an upstream request is due), "done"
    payload,      \* the workflow sent upstream
    retry_count,  \* generate.py: retry_count
    response,     \* index of the outcome bound to `response`, 0 for None
    result_data,  \* index of the outcome whose body is bound to
                  \* `result_data`, 0 while the name is unbound
    sent,         \* number of upstream requests issued
    outcomes,     \* the outcomes of the upstream requests, in order
    sleeps,       \* the time.sleep calls: seconds and the attempt before
    responses,    \* the HTTP responses written
    normalized,   \* the extraction step was reached
    exit_code,    \* CLI: the process exit status, -1 while running
    art           \* CLI: what generate_art returned

vars == << handler, method, request, env, pc, payload, retry_count, response,
           result_data, sent, outcomes, sleeps, responses, normalized,
           exit_code, art >>

NoWorkflow == [ckpt |-> "", steps |-> 0, text |-> ""]

Init ==
    /\ \E h \in {"image", "video", "cli"} :
          /\ handler = h
          /\ IF h = "cli"
             THEN /\ method = "RUN"
                  /\ \E a \in 1..Len(CliArgvs) : request = [argv |-> CliArgvs[a]]
             ELSE \/ /\ method = "POST"
                     /\ \E r \in 1..Len(HttpRequests) : request = HttpRequests[r]
                  \/ /\ method = "OPTIONS"
                     /\ request = HttpRequests[1]
    /\ \E e \in 1..Len(Envs) : env = Envs[e]
    /\ pc = "start"
    /\ payload = NoWorkflow
    /\ retry_count = 0
    /\ response = 0
    /\ result_data = 0
    /\ sent = 0
    /\ outcomes = <<>>
    /\ sleeps = <<>>
    /\ responses = <<>>
    /\ normalized = FALSE
    /\ exit_code = -1
    /\ art = JNull

Respond_Silent(r) ==
    /\ pc' = "done"
    /\ responses' = responses
\* the handler writes r and returns
Respond(r) ==
    /\ pc' = "done"
    /\ responses' = Append(responses, r)

(***************************************************************************)
(* generate.py, handler.do_POST.                                           *)
(***************************************************************************)
\* the response do_POST ends with before any upstream request, if any:
\* <<>> when the request goes on to the retry loop
ImagePrelude_KeyOnly(req, e) ==
    IF ~req.json
    THEN << send_error_response(Msg("bad_request"), 400) >>
    ELSE IF ~IsDict(req.data) \/ ~IsStr(ReqPromptRaw(req))
    THEN << send_error_response(Msg("unexpected"), 500) >>
    ELSE IF ReqPrompt(req) = ""
    THEN << send_error_response(Msg("validation"), 400) >>
    ELSE IF ~Truthy(e.RUNPOD_API_KEY)
    THEN << send_error_response(Msg("configuration"), 500) >>
    ELSE IF StyleRaises(ReqStyle(req))
    THEN << send_error_response(Msg("unexpected"), 500) >>
    ELSE << >>
ImagePrelude(req, e) ==
    IF ~req.json
    THEN << send_error_response(Msg("bad_request"), 400) >>
    ELSE IF ~IsDict(req.data) \/ ~IsStr(ReqPromptRaw(req))
    THEN << send_error_response(Msg("unexpected"), 500) >>
    ELSE IF ReqPrompt(req) = ""
    THEN << send_error_response(Msg("validation"), 400) >>
    ELSE IF ~Truthy(e.RUNPOD_API_KEY) \/ ~Truthy(e.RUNPOD_ENDPOINT_ID)
    THEN << send_error_response(Msg("configuration"), 500) >>
    ELSE IF StyleRaises(ReqStyle(req))
    THEN << send_error_response(Msg("unexpected"), 500) >>
    ELSE << >>

ImageBegin ==
    /\ pc = "start" /\ handler = "image" /\ method = "POST"
    /\ LET early == ImagePrelude(request, env)
       IN IF early # << >>
          THEN /\ Respond(early[1])
               /\ UNCHANGED << payload, retry_count, response >>
          ELSE /\ pc' = "posting"
               /\ payload' = SelectWorkflow(ReqModel(request),
                      enhance_prompt_with_style(ReqPrompt(request),
                                                ReqStyle(request)))
               /\ retry_count' = 0
               /\ response' = 0
               /\ UNCHANGED responses
    /\ UNCHANGED << handler, method, request, env, result_data, sent, outcomes,
                    sleeps, normalized, exit_code, art >>

\* while retry_count < max_retries
WhileCond_OffByOne(rc) == rc <= max_retries
WhileCond(rc) == rc < max_retries
\* except Timeout: if retry_count < max_retries
TimeoutRetry_Always(rc) == TRUE
TimeoutRetry(rc) == rc < max_retries

\* the code after the retry loop, with `response` and `result_data` as the
\* loop left them: the response written, and whether extraction was reached
ImageAfterLoop(req, resp, rd) ==
    IF resp = 0
    THEN [r |-> send_error_response(Msg("no_response"), 500), norm |-> FALSE,
          rd |-> rd]
    ELSE IF Outcome(resp).code # 200
    THEN [r |-> send_error_response(UpstreamMsg(Outcome(resp)), 500),
          norm |-> FALSE, rd |-> rd]
    ELSE IF rd = 0 /\ ~Outcome(resp).json
    THEN [r |-> send_error_response(Msg("malformed"), 500), norm |-> FALSE,
          rd |-> rd]
    ELSE LET bound == IF rd = 0 THEN resp ELSE rd
             data == Outcome(bound).body
             image_data == ImageExtract(data)
         IN [r |-> IF ~MediaOk(image_data)
                   THEN send_error_response(
                            NoMediaMsg(data, ImageDumpLimit), 500)
                   ELSE send_success_response(
                            [image |-> image_data,
                             prompt |-> ReqPrompt(req),
                             enhanced_prompt |->
                                 enhance_prompt_with_style(ReqPrompt(req),
                                                           ReqStyle(req)),
                             style |-> ReqStyle(req)]),
             norm |-> TRUE, rd |-> bound]

\* one iteration of the retry loop, the upstream answering with outcome i,
\* and, when the loop ends, the rest of do_POST
ImageAttempt ==
    /\ pc = "posting" /\ handler = "image"
    /\ \E i \in 1..NOutcomes :
        LET o == Outcome(i)
            timedOut == o.k = "timeout"
            got200 == o.k = "resp" /\ o.code = 200
            parsed == got200 /\ o.json
            raised == \/ o.k = "failed"
                      \/ got200 /\ ~o.json
                      \/ parsed /\ ~IsDict(o.body)
            queued == parsed /\ IsQueued(o)
            rc == IF timedOut \/ queued THEN retry_count + 1 ELSE retry_count
            resp == IF o.k = "resp" THEN i ELSE response
            rd == IF parsed THEN i ELSE result_data
            again == /\ \/ timedOut /\ TimeoutRetry(rc)
                        \/ queued
                     /\ WhileCond(rc)
            after == ImageAfterLoop(request, resp, rd)
        IN /\ sent' = sent + 1
           /\ outcomes' = Append(outcomes, i)
           /\ retry_count' = rc
           /\ response' = resp
           /\ sleeps' =
                IF timedOut /\ TimeoutRetry(rc)
                THEN Append(sleeps, [secs |-> TimeoutBackoff, after |-> sent + 1])
                ELSE IF queued
                THEN Append(sleeps, [secs |-> QueuedBackoff, after |-> sent + 1])
                ELSE sleeps
           /\ IF timedOut /\ ~TimeoutRetry(rc)
              THEN /\ Respond(send_error_response(Msg("timeout"), 500))
                   /\ result_data' = rd
                   /\ UNCHANGED normalized
              ELSE IF raised
              THEN /\ Respond(send_error_response(Msg("request_failed"), 500))
                   /\ result_data' = rd
                   /\ UNCHANGED normalized
              ELSE IF again
              THEN /\ result_data' = rd
                   /\ UNCHANGED << pc, responses, normalized >>
              ELSE /\ Respond(after.r)
                   /\ result_data' = after.rd
                   /\ normalized' = after.norm
    /\ UNCHANGED << handler, method, request, env, payload, exit_code, art >>

(***************************************************************************)
(* generate-video.py, handler.do_POST.                                     *)
(***************************************************************************)
\* os.getenv("RUNPOD_VIDEO_ENDPOINT_ID", os.getenv("RUNPOD_ENDPOINT_ID"))
VideoEndpointId(e) ==
    IF IsNone(e.RUNPOD_VIDEO_ENDPOINT_ID) THEN e.RUNPOD_ENDPOINT_ID
    ELSE e.RUNPOD_VIDEO_ENDPOINT_ID

VideoPrelude(req, e) ==
    IF ~req.json
    THEN << send_error_response(Msg("bad_request"), 400) >>
    ELSE IF ~IsDict(req.data) \/ ~IsStr(ReqPromptRaw(req))
    THEN << send_error_response(Msg("unexpected"), 500) >>
    ELSE IF ReqPrompt(req) = ""
    THEN << send_error_response(Msg("validation"), 400) >>
    ELSE IF ~Truthy(e.RUNPOD_API_KEY) \/ ~Truthy(VideoEndpointId(e))
    THEN << send_error_response(Msg("configuration"), 500) >>
    ELSE IF StyleRaises(ReqStyle(req))
    THEN << send_error_response(Msg("unexpected"), 500) >>
    ELSE << >>

VideoBegin ==
    /\ pc = "start" /\ handler = "video" /\ method = "POST"
    /\ LET early == VideoPrelude(request, env)
       IN IF early # << >>
          THEN /\ Respond(early[1])
               /\ UNCHANGED payload
          ELSE /\ pc' = "posting"
               /\ payload' = get_animatediff_workflow(
                      video_enhance_prompt_with_style(ReqPrompt(request),
                                                      ReqStyle(request)))
               /\ UNCHANGED responses
    /\ UNCHANGED << handler, method, request, env, retry_count, response,
                    result_data, sent, outcomes, sleeps, normalized,
                    exit_code, art >>

\* do_POST from the upstream outcome o on: the response written, and
\* whether extraction was reached
VideoAfterPost(req, o) ==
    IF o.k = "timeout"
    THEN [r |-> send_error_response(Msg("timeout"), 500), norm |-> FALSE]
    ELSE IF o.k = "failed"
    THEN [r |-> send_error_response(Msg("request_failed"), 500), norm |-> FALSE]
    ELSE IF o.code # 200
    THEN [r |-> send_error_response(UpstreamMsg(o), 500), norm |-> FALSE]
    ELSE IF ~o.json
    THEN [r |-> send_error_response(Msg("malformed"), 500), norm |-> FALSE]
    ELSE IF VideoRaises(o.body)
    THEN [r |-> send_error_response(Msg("unexpected"), 500), norm |-> TRUE]
    ELSE LET video_data == VideoExtract(o.body)
         IN [r |-> IF ~MediaOk(video_data)
                   THEN send_error_response(
                            NoMediaMsg(o.body, VideoDumpLimit), 500)
                   ELSE send_success_response(
                            [video |-> video_data,
                             prompt |-> ReqPrompt(req),
                             enhanced_prompt |->
                                 video_enhance_prompt_with_style(
                                     ReqPrompt(req), ReqStyle(req)),
                             style |-> ReqStyle(req)]),
             norm |-> TRUE]

\* the single upstream request, answered with outcome i, and the rest of
\* do_POST
VideoAttempt ==
    /\ pc = "posting" /\ handler = "video"
    /\ \E i \in 1..NOutcomes :
        LET o == Outcome(i)
            after == VideoAfterPost(request, o)
        IN /\ sent' = sent + 1
           /\ outcomes' = Append(outcomes, i)
           /\ response' = IF o.k = "resp" THEN i ELSE response
           /\ result_data' =
                IF o.k = "resp" /\ o.code = 200 /\ o.json THEN i
                ELSE result_data
           /\ Respond(after.r)
           /\ normalized' = after.norm
    /\ UNCHANGED << handler, method, request, env, payload, retry_count,
                    sleeps, exit_code, art >>

(***************************************************************************)
(* handler.do_OPTIONS of both handlers.                                    *)
(***************************************************************************)
DoOptions ==
    /\ pc = "start" /\ handler \in {"image", "video"} /\ method = "OPTIONS"
    /\ Respond(do_OPTIONS_response)
    /\ UNCHANGED << handler, method, request, env, payload, retry_count,
                    response, result_data, sent, outcomes, sleeps, normalized,
                    exit_code, art >>

(***************************************************************************)
(* art_generator.py.                                                       *)
(***************************************************************************)
\* get_runpod_config exits with status 1
ConfigMissing(e) == ~Truthy(e.RUNPOD_API_KEY) \/ ~Truthy(e.RUNPOD_ENDPOINT_ID)

\* main: no prompt, or a request for help
WantsHelp(argv) ==
    Len(argv) < 2 \/ argv[2] \in {"-h", "--help", "help"}

\* main: the style, defaulted and validated
CliStyle(argv) ==
    LET style == IF Len(argv) > 2 THEN argv[3] ELSE "frida"
    IN IF style \in DOMAIN MEXICAN_ART_STYLES THEN style ELSE "frida"

ExitHelp == 0
ExitFailure == 1
ExitSuccess == 0

\* main up to endpoint.run_sync: help, or get_runpod_config
CliBegin ==
    /\ pc = "start" /\ handler = "cli"
    /\ IF WantsHelp(request.argv)
       THEN /\ pc' = "done"
            /\ exit_code' = ExitHelp
            /\ responses' = Append(responses, [cli |-> "help"])
            /\ UNCHANGED payload
       ELSE IF ConfigMissing(env)
       THEN /\ pc' = "done"
            /\ exit_code' = ExitFailure
            /\ responses' = Append(responses, [cli |-> "configuration"])
            /\ UNCHANGED payload
       ELSE /\ pc' = "posting"
            /\ payload' =
                 [ckpt |-> "", steps |-> 25,
                  text |-> enhance_prompt_with_style(
                               request.argv[2],
                               JStr(CliStyle(request.argv)))]
            /\ UNCHANGED << exit_code, responses >>
    /\ UNCHANGED << handler, method, request, env, retry_count, response,
                    result_data, sent, outcomes, sleeps, normalized, art >>

\* endpoint.run_sync answered with outcome i, the rest of generate_art, and
\* main's save_image, which succeeds (saved) or fails
CliRunSync ==
    /\ pc = "posting" /\ handler = "cli"
    /\ \E i \in 1..NOutcomes, saved \in BOOLEAN :
        LET o == Outcome(i)
            returned == o.k = "resp" /\ o.code = 200 /\ o.json
            image_data == IF returned THEN CliExtract(o.body) ELSE JNull
            ok == Truthy(image_data) /\ IsStr(image_data) /\ saved
        IN /\ sent' = sent + 1
           /\ outcomes' = Append(outcomes, i)
           /\ result_data' = IF returned THEN i ELSE result_data
           /\ normalized' = returned
           /\ art' = image_data
           /\ exit_code' = IF ok THEN ExitSuccess ELSE ExitFailure
           /\ responses' =
                Append(responses,
                       [cli |-> IF ok THEN "saved"
                                ELSE IF Truthy(image_data) THEN "save_failed"
                                ELSE "generate_failed"])
           /\ pc' = "done"
    /\ UNCHANGED << handler, method, request, env, payload, retry_count,
                    response, sleeps >>

Next ==
    \/ ImageBegin
    \/ ImageAttempt
    \/ VideoBegin
    \/ VideoAttempt
    \/ DoOptions
    \/ CliBegin
    \/ CliRunSync

Spec == Init /\ [][Next]_vars

\* a handler that has been invoked runs to its end: every blocking call it
\* makes (requests.post with a timeout, time.sleep) returns
FairSpec == Spec /\ WF_vars(Next)

(***************************************************************************)
(* Properties.                                                             *)
(***************************************************************************)
IsHttpPost == handler \in {"image", "video"} /\ method = "POST"
Done == pc = "done"
LastResponse == responses[Len(responses)]
IsErrorResponse(r) == "error" \in DOMAIN r.body
ErrCategory(r) == IF IsErrorResponse(r) THEN r.body.error.category ELSE "none"
OutcomeAt(n) == Outcome(outcomes[n])

\* text made of whitespace only (the empty text included)
Blank(s) == \A i \in 1..Len(s) : SubSeq(s, i, i) = " "

\* the request is a JSON object whose prompt is missing, empty or blank
PromptBlank ==
    /\ request.json /\ IsDict(request.data)
    /\ \/ ~HasKey(request.data, "prompt")
       \/ /\ IsStr(Get(request.data, "prompt"))
          /\ Blank(Get(request.data, "prompt").s)

\* the request is a JSON object whose prompt is text with a visible character
PromptGiven ==
    /\ request.json /\ IsDict(request.data)
    /\ HasKey(request.data, "prompt")
    /\ IsStr(Get(request.data, "prompt"))
    /\ ~Blank(Get(request.data, "prompt").s)

\* C1: one POST to the image handler issues at most 3 upstream requests and
\* one POST to the video handler at most 1; the handler sleeps at most once
\* per request, 10 seconds at most; and every POST ends with exactly one
\* terminal response (success or error).
C1_BoundedAttempts ==
    /\ [](handler = "image" => sent <= 3)
    /\ [](handler = "video" => sent <= 1)
    /\ [](Len(sleeps) <= sent /\ \A n \in 1..Len(sleeps) : sleeps[n].secs <= 10)
    /\ (IsHttpPost ~> (IsHttpPost /\ Done /\ Len(responses) = 1
                       /\ LastResponse.status \in {200, 400, 500}))

C1_Witness ==
    /\ handler = "image" /\ Done /\ sent = 3
    /\ OutcomeAt(1).k = "timeout" /\ IsQueued(OutcomeAt(2))
    /\ LastResponse.status = 200

\* C2: in the image handler, three attempts that all return 200 with the
\* queued status end the invocation with the timeout error.
C2_QueuedExhaustionIsTimeout ==
    (/\ handler = "image" /\ Done /\ Len(outcomes) = 3
     /\ \A n \in 1..3 : IsQueued(OutcomeAt(n)))
    => ErrCategory(LastResponse) = "timeout"

\* C3: in both handlers a non-200 upstream response on any attempt is the
\* last upstream request of the invocation, and the response written is the
\* upstream error carrying the upstream status code and the error body.
C3_Non200Terminates ==
    IsHttpPost =>
    \A n \in 1..Len(outcomes) :
        LET o == OutcomeAt(n)
        IN (o.k = "resp" /\ o.code # 200) =>
           /\ Done /\ n = Len(outcomes) /\ sent = n
           /\ Len(responses) = 1
           /\ ErrCategory(LastResponse) = "upstream"
           /\ LastResponse.body.error.upstream_status = o.code
           /\ LastResponse.body.error.detail
                = (IF o.json THEN o.body ELSE JStr(o.text))

C3_Witness ==
    /\ handler = "image" /\ Done /\ Len(outcomes) = 3
    /\ OutcomeAt(1).k = "timeout" /\ IsQueued(OutcomeAt(2))
    /\ OutcomeAt(3).k = "resp" /\ OutcomeAt(3).code = 404
    /\ ErrCategory(LastResponse) = "upstream"

\* C4: in both handlers a request whose prompt is missing, empty or
\* whitespace-only ends with the validation error, status 400, and issues no
\* upstream request, whatever the credentials in the environment.
C4_BlankPromptRejected ==
    (IsHttpPost /\ PromptBlank) =>
        /\ sent = 0 /\ pc # "posting"
        /\ Done => /\ Len(responses) = 1
                   /\ LastResponse.status = 400
                   /\ ErrCategory(LastResponse) = "validation"

C4_Witness ==
    /\ IsHttpPost /\ Done /\ PromptBlank
    /\ HasKey(request.data, "prompt") /\ IsStr(Get(request.data, "prompt"))
    /\ Get(request.data, "prompt").s = "   "
    /\ IsNone(env.RUNPOD_API_KEY)
    /\ ErrCategory(LastResponse) = "validation"

\* the API credential or the endpoint identifier the program reads is unset
CredentialAbsent ==
    \/ IsNone(env.RUNPOD_API_KEY)
    \/ IF handler = "video" THEN IsNone(VideoEndpointId(env))
       ELSE IsNone(env.RUNPOD_ENDPOINT_ID)

IsInvocation == IsHttpPost \/ handler = "cli"

EndsWithConfigError ==
    IF handler = "cli"
    THEN exit_code = 1 /\ LastResponse.cli = "configuration"
    ELSE LastResponse.status = 500
         /\ ErrCategory(LastResponse) = "configuration"

\* C5 as stated: with the API credential or the endpoint identifier absent,
\* the invocation (for a handler, a POST whose body is a JSON object) ends
\* with a configuration error and issues no upstream request.
C5_AbsentCredentialIsConfigError ==
    (/\ IsInvocation /\ CredentialAbsent
     /\ IsHttpPost => (request.json /\ IsDict(request.data))) =>
        /\ sent = 0
        /\ Done => EndsWithConfigError

\* C5 amended: with the API credential or the endpoint identifier absent no
\* upstream request is issued, and an invocation that passes the checks made
\* before the credential check (a JSON object with a non-blank text prompt;
\* a CLI run that does not ask for help) ends with the configuration error.
C5_ConfigErrorAfterValidation ==
    (IsInvocation /\ CredentialAbsent) =>
        /\ sent = 0 /\ pc # "posting"
        /\ (Done /\ (IF handler = "cli" THEN ~WantsHelp(request.argv)
                     ELSE PromptGiven))
           => EndsWithConfigError

C5_Witness ==
    /\ handler = "image" /\ method = "POST" /\ Done /\ PromptGiven
    /\ ~IsNone(env.RUNPOD_API_KEY) /\ IsNone(env.RUNPOD_ENDPOINT_ID)
    /\ ErrCategory(LastResponse) = "configuration"

\* the parsed body that was normalized, and its `output`
FinalData == Outcome(result_data).body
HasOutput == normalized /\ IsDict(FinalData) /\ HasKey(FinalData, "output")
FinalOutput == Get(FinalData, "output")
IsSuccess(r) == r.status = 200 /\ r.has_body
Media(r) == IF "image" \in DOMAIN r.body THEN r.body.image ELSE r.body.video
Succeeds(v) == IsSuccess(LastResponse) /\ Media(LastResponse) = v

\* the candidate the stated order selects from a mapping: message, then
\* non-empty images (element 0), then video, then image
OrderedRuleMatches(output) ==
    \/ HasKey(output, "message")
    \/ HasKey(output, "images") /\ IsList(Get(output, "images"))
       /\ PyLen(Get(output, "images")) > 0
    \/ HasKey(output, "video")
    \/ HasKey(output, "image")
OrderedSelect(output) ==
    IF HasKey(output, "message") THEN Get(output, "message")
    ELSE IF HasKey(output, "images") /\ IsList(Get(output, "images"))
            /\ PyLen(Get(output, "images")) > 0
         THEN Get(output, "images").xs[1]
    ELSE IF HasKey(output, "video") THEN Get(output, "video")
    ELSE Get(output, "image")

\* C6: for a mapping-valued output both handlers select the candidate by the
\* first matching rule in the order message, non-empty images (element 0),
\* video, image; a text candidate so selected is the media of the success
\* response.
C6_SelectionOrder ==
    (/\ IsHttpPost /\ Done /\ HasOutput /\ IsDict(FinalOutput)
     /\ OrderedRuleMatches(FinalOutput)
     /\ MediaOk(OrderedSelect(FinalOutput)))
    => Succeeds(OrderedSelect(FinalOutput))

\* C7: in both handlers, when output is a non-empty sequence whose element 0
\* is text, the response is a success carrying that text.
C7_SequenceOutput ==
    (/\ IsHttpPost /\ Done /\ HasOutput /\ IsList(FinalOutput)
     /\ PyLen(FinalOutput) > 0 /\ MediaOk(FinalOutput.xs[1]))
    => Succeeds(FinalOutput.xs[1])

\* C8: whenever output is itself a non-empty text, the image handler and
\* the video handler answer with exactly that text and generate_art returns
\* exactly that text.
C8_TextOutput ==
    (/\ IsInvocation /\ Done /\ HasOutput /\ IsStr(FinalOutput)
     /\ Truthy(FinalOutput))
    => IF handler = "cli" THEN art = FinalOutput ELSE Succeeds(FinalOutput)

\* the candidate each handler selects, before the unwrap step
Candidate ==
    IF handler = "image" THEN ImageSelect(FinalOutput)
    ELSE VideoFirst(VideoSelect(FinalOutput))

\* one level of unwrapping as stated: data, else image, else video
OneLevelUnwrap(c) ==
    IF HasKey(c, "data") THEN Get(c, "data")
    ELSE IF HasKey(c, "image") THEN Get(c, "image")
    ELSE IF HasKey(c, "video") THEN Get(c, "video")
    ELSE c

\* C9: in both handlers a selected candidate that is a mapping is unwrapped
\* exactly one level by data, else image, else video: the response is a
\* success carrying the unwrapped value when that is non-empty text, and
\* the no-media-found error otherwise.
C9_UnwrapOneLevel ==
    (IsHttpPost /\ Done /\ HasOutput /\ IsDict(Candidate))
    => IF MediaOk(OneLevelUnwrap(Candidate))
       THEN Succeeds(OneLevelUnwrap(Candidate))
       ELSE ErrCategory(LastResponse) = "no_media"

\* C10: in both handlers every success response carries a non-empty text as
\* its media field, and every other invocation that reaches normalization
\* ends with the no-media-found error, whose dump of the raw response is at
\* most 1000 characters.
C10_SuccessOnlyWithText ==
    (IsHttpPost /\ Done) =>
        /\ IsSuccess(LastResponse) => MediaOk(Media(LastResponse))
        /\ (normalized /\ ~IsSuccess(LastResponse)) =>
              /\ ErrCategory(LastResponse) = "no_media"
              /\ LastResponse.body.error.dump_len <= 1000

\* the environment holds the credentials the handler reads
CredentialsSet ==
    /\ Truthy(env.RUNPOD_API_KEY)
    /\ IF handler = "video" THEN Truthy(VideoEndpointId(env))
       ELSE Truthy(env.RUNPOD_ENDPOINT_ID)

StyleRecognized ==
    IsStr(ReqStyle(request)) /\ ReqStyle(request).s \in {"frida", "mural", "folk"}
ModelRecognized ==
    /\ IsStr(ReqModel(request))
    /\ ReqModel(request).s \in {"sdxl-turbo", "sdxl-lightning", "flux-dev"}

\* s begins with prefix
StartsWith(s, prefix) ==
    Len(prefix) <= Len(s) /\ SubSeq(s, 1, Len(prefix)) = prefix

\* C11: for every style and every model that is not a recognized key, text or
\* not, request building in the image handler does not fail: the prompt sent
\* is the trimmed prompt with the frida modifier when the style is
\* unrecognized, the pipeline is sdxl-turbo, the one with the fewest steps,
\* when the model is unrecognized, and the invocation goes on to the
\* upstream request.
C11_UnknownKeysFallBack ==
    (/\ handler = "image" /\ method = "POST" /\ PromptGiven /\ CredentialsSet
     /\ ~StyleRecognized \/ ~ModelRecognized
     /\ pc # "start")
    => /\ pc = "posting" \/ sent >= 1
       /\ ~StyleRecognized =>
             /\ StartsWith(payload.text, ReqPrompt(request))
             /\ Contains(payload.text, "in the style of Frida Kahlo")
       /\ ~ModelRecognized =>
             /\ payload.ckpt = "sd_xl_turbo_1.0.safetensors"
             /\ payload.steps <= 8 /\ payload.steps <= 20

\* C12: in both handlers a 200 upstream response whose body is not JSON is
\* the last upstream request of the invocation and ends it with the
\* malformed-response error, not with the error reported for request
\* failures such as connection errors.
C12_MalformedBodyCategory ==
    IsHttpPost =>
    \A n \in 1..Len(outcomes) :
        LET o == OutcomeAt(n)
        IN (o.k = "resp" /\ o.code = 200 /\ ~o.json) =>
           /\ Done /\ n = Len(outcomes) /\ sent = n
           /\ ErrCategory(LastResponse) = "malformed"
           /\ ErrCategory(LastResponse) # "request_failed"

\* the keys of a success body of the handler
SuccessKeys ==
    {IF handler = "image" THEN "image" ELSE "video",
     "prompt", "enhanced_prompt", "style"}

\* s has no leading and no trailing whitespace
Trimmed(s) ==
    Len(s) > 0 => SubSeq(s, 1, 1) # " " /\ SubSeq(s, Len(s), Len(s)) # " "

\* C13: for every POST to either handler the response status is 200 exactly
\* when a media payload was extracted, and then the body holds the media
\* field, the trimmed prompt, the enhanced prompt and the style; on every
\* failure path the status is 4xx or 5xx and the body holds only `error`.
C13_ResponseShape ==
    (IsHttpPost /\ Done) =>
        LET r == LastResponse
        IN /\ r.has_body
           /\ r.status = 200 <=>
                (normalized /\ IsDict(FinalData)
                 /\ MediaOk(IF handler = "image" THEN ImageExtract(FinalData)
                            ELSE VideoExtract(FinalData)))
           /\ r.status = 200 =>
                /\ DOMAIN r.body = SuccessKeys
                /\ MediaOk(Media(r))
                /\ Trimmed(r.body.prompt)
                /\ Contains(Get(request.data, "prompt").s, r.body.prompt)
                /\ ~Blank(r.body.prompt)
                /\ StartsWith(r.body.enhanced_prompt, r.body.prompt \o ", ")
                /\ r.body.enhanced_prompt = payload.text
                /\ r.body.style = ReqStyle(request)
           /\ r.status # 200 =>
                /\ r.status \in 400..599
                /\ DOMAIN r.body = {"error"}

C13_Witness ==
    /\ IsHttpPost /\ Done /\ IsSuccess(LastResponse)
    /\ LastResponse.body.prompt = "a garden"
    /\ Get(request.data, "prompt").s = "  a garden "
    /\ handler = "video"

\* C14: every response written by either handler, by do_POST on any path and
\* by do_OPTIONS, carries Access-Control-Allow-Origin: *, and the OPTIONS
\* response has status 200 and no body.
C14_CorsOnEveryResponse ==
    handler \in {"image", "video"} =>
        \A n \in 1..Len(responses) :
            LET r == responses[n]
            IN /\ "Access-Control-Allow-Origin" \in DOMAIN r.headers
               /\ r.headers["Access-Control-Allow-Origin"] = "*"
               /\ method = "OPTIONS" => (r.status = 200 /\ ~r.has_body)

C14_Witness ==
    /\ IsHttpPost /\ Done /\ ErrCategory(LastResponse) = "timeout"
    /\ LastResponse.headers["Access-Control-Allow-Origin"] = "*"

\* outcome o asks for a retry: a timeout, or a 200 reporting the queued state
IsRetryTrigger(o) == o.k = "timeout" \/ IsQueued(o)

\* C15: in both handlers a timeout or a queued 200 response on an attempt
\* before the last of the 3-attempt budget is followed by another upstream
\* request, not by a terminal response.
C15_RetryBeforeLastAttempt ==
    (IsHttpPost /\ Done /\ Len(outcomes) >= 1 /\ Len(outcomes) < 3)
    => ~IsRetryTrigger(OutcomeAt(Len(outcomes)))

\* C16: in the image handler every backoff wait lies between two attempts:
\* it lasts 5 seconds after a timeout and 10 seconds after a queued response,
\* another upstream request follows it, and none follows the final attempt.
C16_BackoffBetweenAttempts ==
    handler = "image" =>
        \A k \in 1..Len(sleeps) :
            LET w == sleeps[k]
            IN /\ w.after \in 1..Len(outcomes)
               /\ OutcomeAt(w.after).k = "timeout" => w.secs = 5
               /\ IsQueued(OutcomeAt(w.after)) => w.secs = 10
               /\ IsRetryTrigger(OutcomeAt(w.after))
               /\ w.after < 3
               /\ Done => w.after < Len(outcomes)

\* output is a mapping whose images entry is an empty sequence and which
\* holds no message entry
EmptyImagesOutput ==
    /\ HasOutput /\ IsDict(FinalOutput)
    /\ ~HasKey(FinalOutput, "message")
    /\ HasKey(FinalOutput, "images") /\ IsList(Get(FinalOutput, "images"))
    /\ PyLen(Get(FinalOutput, "images")) = 0

\* C17: in both handlers an empty images sequence does not match the images
\* rule and the later rules apply: with a text video entry the response
\* carries that entry, else with a text image entry that entry, and an
\* output holding only the empty images ends in the no-media-found error.
C17_EmptyImagesFallsThrough ==
    (IsHttpPost /\ Done /\ EmptyImagesOutput) =>
        IF HasKey(FinalOutput, "video")
        THEN MediaOk(Get(FinalOutput, "video"))
                => Succeeds(Get(FinalOutput, "video"))
        ELSE IF HasKey(FinalOutput, "image")
        THEN MediaOk(Get(FinalOutput, "image"))
                => Succeeds(Get(FinalOutput, "image"))
        ELSE PyLen(FinalOutput) = 1 => ErrCategory(LastResponse) = "no_media"

\* the value the catch-all scan as stated takes from a mapping: the first
\* entry, in insertion order, that is text strictly longer than 100
ScanIndexes(output) ==
    {i \in 1..PyLen(output) :
        IsStr(output.es[i][2]) /\ Len(output.es[i][2].s) > 100}

\* C18: in both handlers, when a mapping-valued output matches none of the
\* known-key rules (message, non-empty images, video, image; an images
\* entry, if any, being an empty sequence), the first entry in insertion
\* order whose value is text strictly longer than 100 characters is the
\* media of the success response, and with no such entry the handler ends
\* with the no-media-found error.
C18_CatchAllScan ==
    (/\ IsHttpPost /\ Done /\ HasOutput /\ IsDict(FinalOutput)
     /\ ~OrderedRuleMatches(FinalOutput)
     /\ HasKey(FinalOutput, "images") => IsList(Get(FinalOutput, "images")))
    => IF ScanIndexes(FinalOutput) = {}
       THEN ErrCategory(LastResponse) = "no_media"
       ELSE \E i \in ScanIndexes(FinalOutput) :
               /\ \A j \in ScanIndexes(FinalOutput) : i <= j
               /\ Succeeds(FinalOutput.es[i][2])

\* C19: every path through do_POST of either handler writes exactly one HTTP
\* response: none while the handler runs, one when it has returned, and a
\* response once written is never followed by another.
C19_ExactlyOneResponse ==
    [][IsHttpPost =>
         /\ Len(responses) = (IF Done THEN 1 ELSE 0)
         /\ Len(responses') = (IF pc' = "done" THEN 1 ELSE 0)
         /\ Done => UNCHANGED responses]_vars

C19_Witness ==
    /\ handler = "image" /\ method = "POST" /\ Done /\ sent = 3
    /\ OutcomeAt(1).k = "timeout" /\ OutcomeAt(2).k = "timeout"
    /\ OutcomeAt(3).k = "timeout"
    /\ Len(responses) = 1

\* C20: in the image handler `response` is never None after the retry loop
\* and `result_data` is always bound when the parse step after the loop is
\* reached, so neither the "Failed to get response" branch nor the parse
\* step's error is ever the response; the response and the body normalized
\* are those of the last upstream request, which returned.
C20_LoopLeavesResponseBound ==
    handler = "image" =>
        /\ Done => ErrCategory(LastResponse) \notin {"no_response", "malformed"}
        /\ (pc = "posting" /\ response # 0) => result_data = response
        /\ normalized =>
              /\ Len(outcomes) >= 1
              /\ OutcomeAt(Len(outcomes)).k = "resp"
              /\ OutcomeAt(Len(outcomes)).code = 200
              /\ OutcomeAt(Len(outcomes)).json
              /\ response = outcomes[Len(outcomes)]
              /\ result_data = response

C20_Witness ==
    /\ handler = "image" /\ Done /\ normalized /\ Len(outcomes) = 3
    /\ IsQueued(OutcomeAt(1)) /\ OutcomeAt(2).k = "timeout"
    /\ ~IsQueued(OutcomeAt(3))
    /\ outcomes[1] # outcomes[3] /\ result_data = outcomes[3]
====
